---------------------------- MODULE Spec2Model ----------------------------
(***************************************************************************)
(* PDF color page analyzer: the document scanner (analyze_pdf), the page   *)
(* classifier inside it and the page range formatter (format_page_list),   *)
(* as implemented twice: src/app.py (the web front end, "web") and         *)
(* src/pdf_color_page_analyzer.py (the desktop front end, "desk").         *)
(***************************************************************************)
EXTENDS Integers, Sequences, FiniteSets, TLC

VARIABLES
    document,     \* the input PDF: whether fitz.open fails, and what each page renders to
    pc,           \* [FE -> position of that front end's analyze_pdf]
    color_pages,  \* [FE -> the local list color_pages]
    bw_pages,     \* [FE -> the local list bw_pages]
    page_num,     \* [FE -> the loop variable: index of the page being processed]
    total_pages,  \* app.py's local total_pages
    pix,          \* [FE -> the pixmap of the page being processed]
    doc_open,     \* [FE -> the document handle is open]
    temp_file,    \* app.py's temporary file exists on disk
    progress,     \* the values app.py handed to progress_bar.progress, in order
    errors,       \* [FE -> number of reports on the error channel]
    ret,          \* [FE -> the value analyze_pdf returned]
    reads,        \* [FE -> per classified page, the offsets of img_data that were read]
    page_list,    \* [FE -> the list object handed to format_page_list]
    arg_list,     \* the list as it was before format_page_list was called
    out,          \* [FE -> what format_page_list returned]
    cpix,         \* the pixmap handed to the classifier on its own
    verdict,      \* [FE -> the classifier's is_color for cpix]
    creads,       \* [FE -> the offsets of cpix.samples the classifier read]
    fpc,          \* [FE -> position of the format_page_list call]
    cpc           \* [FE -> position of the classifier call]

scanVars    == <<document, pc, color_pages, bw_pages, page_num, total_pages, pix,
                 doc_open, temp_file, progress, errors, ret, reads>>

formatVars  == <<page_list, arg_list, out, fpc>>

classVars   == <<cpix, verdict, creads, cpc>>

vars        == <<scanVars, formatVars, classVars>>

FE == {"web", "desk"}

-----------------------------------------------------------------------------
(* Bounds of the model *)

MaxPages == 3

MaxRasterLen == 64

MaxPageNo == 5

MaxListLen == 5

-----------------------------------------------------------------------------
(* Pixmaps *)

abs(x) == IF x < 0 THEN -x ELSE x

NoColorspace == [present |-> FALSE, n |-> 0]

Colorspace(k) == [present |-> TRUE, n |-> k]

\* A raster of len bytes: the pixels at offsets 0, 30 and 60 are p0, p1 and p2,
\* every other byte comes from the repeating triple fill.
Raster(len, p0, p1, p2, fill) ==
    [j \in 1..len |->
        LET i == j - 1
        IN  IF i % 30 < 3 /\ i \div 30 <= 2
            THEN <<p0, p1, p2>>[(i \div 30) + 1][(i % 30) + 1]
            ELSE fill[(i % 3) + 1]]

Gray     == <<10, 10, 10>>
AtLimit  == <<10, 15, 10>>
OverRG   == <<10, 16, 16>>
OverB    == <<10, 10, 16>>
Vivid    == <<0, 255, 0>>

Pixmap(cs, samples) == [ok |-> TRUE, colorspace |-> cs, samples |-> samples]

\* load_page / get_pixmap raising
RenderFails == [ok |-> FALSE, colorspace |-> NoColorspace, samples |-> <<>>]


-----------------------------------------------------------------------------
(* The classifier of src/app.py (lines 30-47) *)

\* mutation of line 40: >= in place of >
app_is_color_pixel_inclusive(r, g, b) ==
    abs(r - g) >= 5 \/ abs(r - b) >= 5 \/ abs(g - b) >= 5

\* line 40
app_is_color_pixel(r, g, b) ==
    abs(r - g) > 5 \/ abs(r - b) > 5 \/ abs(g - b) > 5

\* lines 37-42: the sampling loop from offset i on; rd collects the offsets read
RECURSIVE app_sample_loop(_, _, _)
app_sample_loop(img_data, i, rd) ==
    IF i >= Len(img_data)
    THEN [is_color |-> FALSE, reads |-> rd]
    ELSE IF i + 2 < Len(img_data)
         THEN LET r == img_data[i + 1]
                  g == img_data[i + 2]
                  b == img_data[i + 3]
                  rd2 == rd \cup {i, i + 1, i + 2}
              IN  IF app_is_color_pixel(r, g, b)
                  THEN [is_color |-> TRUE, reads |-> rd2]
                  ELSE app_sample_loop(img_data, i + 3 * 10, rd2)
         ELSE app_sample_loop(img_data, i + 3 * 10, rd)

\* mutation of line 30: any colorspace counts as carrying color
app_has_color_channels_any(p) ==
    p.colorspace.present /\ p.colorspace.n >= 1

\* line 30
app_has_color_channels(p) ==
    p.colorspace.present /\ p.colorspace.n >= 3

\* lines 30-49: is_color of a rendered page, with the offsets read
app_classify(p) ==
    IF app_has_color_channels(p)
    THEN app_sample_loop(p.samples, 0, {})
    ELSE [is_color |-> FALSE, reads |-> {}]

-----------------------------------------------------------------------------
(* The classifier of src/pdf_color_page_analyzer.py (lines 27-44) *)

\* line 37
desk_is_color_pixel(r, g, b) ==
    abs(r - g) > 5 \/ abs(r - b) > 5 \/ abs(g - b) > 5

\* lines 34-39
RECURSIVE desk_sample_loop(_, _, _)
desk_sample_loop(img_data, i, rd) ==
    IF i >= Len(img_data)
    THEN [is_color |-> FALSE, reads |-> rd]
    ELSE IF i + 2 < Len(img_data)
         THEN LET r == img_data[i + 1]
                  g == img_data[i + 2]
                  b == img_data[i + 3]
                  rd2 == rd \cup {i, i + 1, i + 2}
              IN  IF desk_is_color_pixel(r, g, b)
                  THEN [is_color |-> TRUE, reads |-> rd2]
                  ELSE desk_sample_loop(img_data, i + 3 * 10, rd2)
         ELSE desk_sample_loop(img_data, i + 3 * 10, rd)

\* line 27
desk_has_color_channels(p) ==
    p.colorspace.present /\ p.colorspace.n >= 3

\* lines 27-46
desk_classify(p) ==
    IF desk_has_color_channels(p)
    THEN desk_sample_loop(p.samples, 0, {})
    ELSE [is_color |-> FALSE, reads |-> {}]

-----------------------------------------------------------------------------
(* Documents *)

\* What a page of the scanned document can render to.
PageKinds ==
    { RenderFails,
      Pixmap(NoColorspace,  Raster(33, Vivid, Vivid, Vivid, Vivid)),
      Pixmap(Colorspace(1), Raster(33, Vivid, Vivid, Vivid, Vivid)),
      Pixmap(Colorspace(3), Raster(66, Gray, AtLimit, Gray, Vivid)),
      Pixmap(Colorspace(3), Raster(66, Gray, OverB, Gray, Gray)),
      Pixmap(Colorspace(4), Raster(40, OverRG, Gray, Gray, Gray)) }

SeqsUpTo(S, n) == UNION { [1..k -> S] : k \in 0..n }

Documents ==
    { [open_fails |-> TRUE, pages |-> <<>>] } \cup
    { [open_fails |-> FALSE, pages |-> ps] : ps \in SeqsUpTo(PageKinds, MaxPages) }

NoReturn == [returned |-> FALSE, color_pages |-> <<>>, bw_pages |-> <<>>,
             has_total |-> FALSE, total_pages |-> 0]

InitScan ==
    /\ document \in Documents
    /\ pc = [f \in FE |-> "start"]
    /\ color_pages = [f \in FE |-> <<>>]
    /\ bw_pages = [f \in FE |-> <<>>]
    /\ page_num = [f \in FE |-> 0]
    /\ total_pages = 0
    /\ pix = [f \in FE |-> RenderFails]
    /\ doc_open = [f \in FE |-> FALSE]
    /\ temp_file = FALSE
    /\ progress = <<>>
    /\ errors = [f \in FE |-> 0]
    /\ ret = [f \in FE |-> NoReturn]
    /\ reads = [f \in FE |-> <<>>]

ScanIdle ==
    /\ document = [open_fails |-> TRUE, pages |-> <<>>]
    /\ pc = [f \in FE |-> "idle"]
    /\ color_pages = [f \in FE |-> <<>>]
    /\ bw_pages = [f \in FE |-> <<>>]
    /\ page_num = [f \in FE |-> 0]
    /\ total_pages = 0
    /\ pix = [f \in FE |-> RenderFails]
    /\ doc_open = [f \in FE |-> FALSE]
    /\ temp_file = FALSE
    /\ progress = <<>>
    /\ errors = [f \in FE |-> 0]
    /\ ret = [f \in FE |-> NoReturn]
    /\ reads = [f \in FE |-> <<>>]

-----------------------------------------------------------------------------
(* analyze_pdf of src/app.py *)

Returned(c, b, t) == [returned |-> TRUE, color_pages |-> c, bw_pages |-> b,
                      has_total |-> TRUE, total_pages |-> t]

\* mutation of lines 45, 47, 49: the page index is appended as it is
app_page_number_zero_based(n) == n

\* lines 45, 47, 49: the 1-based page number appended for page index n
app_page_number(n) == n + 1

\* mutation of line 60: the except clause returns what was collected so far
app_except_result_partial ==
    [returned |-> TRUE, color_pages |-> color_pages["web"],
     bw_pages |-> bw_pages["web"], has_total |-> TRUE, total_pages |-> total_pages]

\* line 60: the value returned by the except clause
app_except_result == Returned(<<>>, <<>>, 0)

\* line 56: the value returned after the loop
app_success_result == Returned(color_pages["web"], bw_pages["web"], total_pages)

\* where an exception raised inside the try block goes (line 58)
app_raise == pc' = [pc EXCEPT !["web"] = "except"]

\* lines 10-12: the upload is written to a temporary file that outlives the with block
Web_CreateTemp ==
    /\ pc["web"] = "start"
    /\ temp_file' = TRUE
    /\ pc' = [pc EXCEPT !["web"] = "open"]
    /\ UNCHANGED <<document, color_pages, bw_pages, page_num, total_pages, pix,
                   doc_open, progress, errors, ret, reads,
                   formatVars, classVars>>

\* lines 14-22: fitz.open raises
Web_OpenFails ==
    /\ pc["web"] = "open"
    /\ document.open_fails
    /\ app_raise
    /\ UNCHANGED <<document, color_pages, bw_pages, page_num, total_pages, pix,
                   doc_open, temp_file, progress, errors, ret, reads,
                   formatVars, classVars>>

\* lines 14-22: fitz.open, the empty lists, the progress bar, len(doc), loop entry
Web_Open ==
    /\ pc["web"] = "open"
    /\ ~document.open_fails
    /\ doc_open' = [doc_open EXCEPT !["web"] = TRUE]
    /\ color_pages' = [color_pages EXCEPT !["web"] = <<>>]
    /\ bw_pages' = [bw_pages EXCEPT !["web"] = <<>>]
    /\ total_pages' = Len(document.pages)
    /\ page_num' = [page_num EXCEPT !["web"] = 0]
    /\ pc' = [pc EXCEPT !["web"] =
                 IF Len(document.pages) > 0 THEN "progress" ELSE "close"]
    /\ UNCHANGED <<document, pix, temp_file, progress, errors, ret, reads,
                   formatVars, classVars>>

\* line 24: progress_bar.progress((page_num + 1) / total_pages)
Web_Progress ==
    /\ pc["web"] = "progress"
    /\ progress' = Append(progress, [completed |-> page_num["web"] + 1,
                                     total |-> total_pages])
    /\ pc' = [pc EXCEPT !["web"] = "render"]
    /\ UNCHANGED <<document, color_pages, bw_pages, page_num, total_pages, pix,
                   doc_open, temp_file, errors, ret, reads,
                   formatVars, classVars>>

\* lines 26-27: load_page or get_pixmap raises
Web_RenderFails ==
    /\ pc["web"] = "render"
    /\ ~document.pages[page_num["web"] + 1].ok
    /\ app_raise
    /\ UNCHANGED <<document, color_pages, bw_pages, page_num, total_pages, pix,
                   doc_open, temp_file, progress, errors, ret, reads,
                   formatVars, classVars>>

\* lines 26-27: load_page and get_pixmap(alpha=False)
Web_Render ==
    /\ pc["web"] = "render"
    /\ document.pages[page_num["web"] + 1].ok
    /\ pix' = [pix EXCEPT !["web"] = document.pages[page_num["web"] + 1]]
    /\ pc' = [pc EXCEPT !["web"] = "classify"]
    /\ UNCHANGED <<document, color_pages, bw_pages, page_num, total_pages,
                   doc_open, temp_file, progress, errors, ret, reads,
                   formatVars, classVars>>

\* lines 30-49, and line 22 for the next iteration
Web_Classify ==
    /\ pc["web"] = "classify"
    /\ LET c == app_classify(pix["web"])
           n == app_page_number(page_num["web"])
       IN  /\ color_pages' = [color_pages EXCEPT !["web"] =
                                 IF c.is_color THEN Append(@, n) ELSE @]
           /\ bw_pages' = [bw_pages EXCEPT !["web"] =
                              IF c.is_color THEN @ ELSE Append(@, n)]
           /\ reads' = [reads EXCEPT !["web"] = Append(@, c.reads)]
    /\ IF page_num["web"] + 1 < total_pages
       THEN /\ page_num' = [page_num EXCEPT !["web"] = @ + 1]
            /\ pc' = [pc EXCEPT !["web"] = "progress"]
       ELSE /\ page_num' = page_num
            /\ pc' = [pc EXCEPT !["web"] = "close"]
    /\ UNCHANGED <<document, total_pages, pix, doc_open, temp_file, progress,
                   errors, ret,
                   formatVars, classVars>>

\* lines 51-56: doc.close(), os.unlink(temp_file_path), return
Web_Return ==
    /\ pc["web"] = "close"
    /\ doc_open' = [doc_open EXCEPT !["web"] = FALSE]
    /\ temp_file' = FALSE
    /\ ret' = [ret EXCEPT !["web"] = app_success_result]
    /\ pc' = [pc EXCEPT !["web"] = "done"]
    /\ UNCHANGED <<document, color_pages, bw_pages, page_num, total_pages, pix,
                   progress, errors, reads,
                   formatVars, classVars>>

\* lines 58-60: st.error(...), return [], [], 0
Web_Except ==
    /\ pc["web"] = "except"
    /\ errors' = [errors EXCEPT !["web"] = @ + 1]
    /\ ret' = [ret EXCEPT !["web"] = app_except_result]
    /\ pc' = [pc EXCEPT !["web"] = "done"]
    /\ UNCHANGED <<document, color_pages, bw_pages, page_num, total_pages, pix,
                   doc_open, temp_file, progress, reads,
                   formatVars, classVars>>

-----------------------------------------------------------------------------
(* analyze_pdf and display_results of src/pdf_color_page_analyzer.py *)

Returned2(c, b) == [returned |-> TRUE, color_pages |-> c, bw_pages |-> b,
                    has_total |-> FALSE, total_pages |-> 0]

\* mutation of lines 42, 44, 46: the page index is appended as it is
desk_page_number_zero_based(n) == n

\* lines 42, 44, 46
desk_page_number(n) == n + 1

\* line 53
desk_except_result == Returned2(<<>>, <<>>)

\* line 49
desk_success_result == Returned2(color_pages["desk"], bw_pages["desk"])

\* line 60 (display_results)
desk_display_total(c, b) == Len(c) + Len(b)

\* where an exception raised inside the try block goes (line 51)
desk_raise == pc' = [pc EXCEPT !["desk"] = "except"]

\* line 18: fitz.open raises
Desk_OpenFails ==
    /\ pc["desk"] = "start"
    /\ document.open_fails
    /\ desk_raise
    /\ UNCHANGED <<document, color_pages, bw_pages, page_num, total_pages, pix,
                   doc_open, temp_file, progress, errors, ret, reads,
                   formatVars, classVars>>

\* lines 18-22
Desk_Open ==
    /\ pc["desk"] = "start"
    /\ ~document.open_fails
    /\ doc_open' = [doc_open EXCEPT !["desk"] = TRUE]
    /\ color_pages' = [color_pages EXCEPT !["desk"] = <<>>]
    /\ bw_pages' = [bw_pages EXCEPT !["desk"] = <<>>]
    /\ page_num' = [page_num EXCEPT !["desk"] = 0]
    /\ pc' = [pc EXCEPT !["desk"] =
                 IF Len(document.pages) > 0 THEN "render" ELSE "close"]
    /\ UNCHANGED <<document, total_pages, pix, temp_file, progress, errors, ret,
                   reads,
                   formatVars, classVars>>

\* lines 23-24: load_page or get_pixmap raises
Desk_RenderFails ==
    /\ pc["desk"] = "render"
    /\ ~document.pages[page_num["desk"] + 1].ok
    /\ desk_raise
    /\ UNCHANGED <<document, color_pages, bw_pages, page_num, total_pages, pix,
                   doc_open, temp_file, progress, errors, ret, reads,
                   formatVars, classVars>>

\* lines 23-24
Desk_Render ==
    /\ pc["desk"] = "render"
    /\ document.pages[page_num["desk"] + 1].ok
    /\ pix' = [pix EXCEPT !["desk"] = document.pages[page_num["desk"] + 1]]
    /\ pc' = [pc EXCEPT !["desk"] = "classify"]
    /\ UNCHANGED <<document, color_pages, bw_pages, page_num, total_pages,
                   doc_open, temp_file, progress, errors, ret, reads,
                   formatVars, classVars>>

\* lines 27-46, and line 22 for the next iteration
Desk_Classify ==
    /\ pc["desk"] = "classify"
    /\ LET c == desk_classify(pix["desk"])
           n == desk_page_number(page_num["desk"])
       IN  /\ color_pages' = [color_pages EXCEPT !["desk"] =
                                 IF c.is_color THEN Append(@, n) ELSE @]
           /\ bw_pages' = [bw_pages EXCEPT !["desk"] =
                              IF c.is_color THEN @ ELSE Append(@, n)]
           /\ reads' = [reads EXCEPT !["desk"] = Append(@, c.reads)]
    /\ IF page_num["desk"] + 1 < Len(document.pages)
       THEN /\ page_num' = [page_num EXCEPT !["desk"] = @ + 1]
            /\ pc' = [pc EXCEPT !["desk"] = "render"]
       ELSE /\ page_num' = page_num
            /\ pc' = [pc EXCEPT !["desk"] = "close"]
    /\ UNCHANGED <<document, total_pages, pix, doc_open, temp_file, progress,
                   errors, ret,
                   formatVars, classVars>>

\* lines 48-49: doc.close(), return
Desk_Return ==
    /\ pc["desk"] = "close"
    /\ doc_open' = [doc_open EXCEPT !["desk"] = FALSE]
    /\ ret' = [ret EXCEPT !["desk"] = desk_success_result]
    /\ pc' = [pc EXCEPT !["desk"] = "done"]
    /\ UNCHANGED <<document, color_pages, bw_pages, page_num, total_pages, pix,
                   temp_file, progress, errors, reads,
                   formatVars, classVars>>

\* lines 51-53: messagebox.showerror(...), return [], []
Desk_Except ==
    /\ pc["desk"] = "except"
    /\ errors' = [errors EXCEPT !["desk"] = @ + 1]
    /\ ret' = [ret EXCEPT !["desk"] = desk_except_result]
    /\ pc' = [pc EXCEPT !["desk"] = "done"]
    /\ UNCHANGED <<document, color_pages, bw_pages, page_num, total_pages, pix,
                   doc_open, temp_file, progress, reads,
                   formatVars, classVars>>

-----------------------------------------------------------------------------
(* Python built-ins used by format_page_list *)

DigitChars == <<"0", "1", "2", "3", "4", "5", "6", "7", "8", "9">>

\* str(n) and the f-string conversion of a non-negative int: its decimal digits
RECURSIVE py_str(_)
py_str(n) ==
    IF n < 10 THEN DigitChars[n + 1]
    ELSE py_str(n \div 10) \o DigitChars[(n % 10) + 1]

\* insertion of x into the ascending list s
RECURSIVE py_insert(_, _)
py_insert(s, x) ==
    IF s = <<>> THEN <<x>>
    ELSE IF x < Head(s) THEN <<x>> \o s
    ELSE <<Head(s)>> \o py_insert(Tail(s), x)

\* list.sort(): the ascending arrangement of the list's elements
RECURSIVE list_sort(_)
list_sort(s) ==
    IF s = <<>> THEN <<>>
    ELSE py_insert(list_sort(Tail(s)), Head(s))

\* sep.join(parts)
RECURSIVE py_join(_, _)
py_join(sep, parts) ==
    IF parts = <<>> THEN ""
    ELSE IF Len(parts) = 1 THEN parts[1]
    ELSE parts[1] \o sep \o py_join(sep, Tail(parts))

-----------------------------------------------------------------------------
(* format_page_list of src/app.py (lines 62-88) *)

\* mutation of lines 76-79: every run is rendered as a range
app_render_run_always_range(start, end) ==
    py_str(start) \o "-" \o py_str(end)

\* lines 76-79 and 83-86
app_render_run(start, end) ==
    IF start = end THEN py_str(start)
    ELSE py_str(start) \o "-" \o py_str(end)

\* lines 72-80: the loop from (1-based) position i on
RECURSIVE app_format_loop(_, _, _, _, _)
app_format_loop(pl, i, start, end, result) ==
    IF i > Len(pl)
    THEN [start |-> start, end |-> end, result |-> result]
    ELSE IF pl[i] = end + 1
         THEN app_format_loop(pl, i + 1, start, pl[i], result)
         ELSE app_format_loop(pl, i + 1, pl[i], pl[i],
                              Append(result, app_render_run(start, end)))

\* mutation of line 67: the list is not sorted
app_sorted_missing(pl) == pl

\* line 67: page_list.sort(), in place
app_sorted(pl) == list_sort(pl)

\* lines 62-88: the string returned, and the argument list as the call leaves it
app_format_page_list(pl) ==
    IF pl = <<>>
    THEN [result |-> "", page_list |-> pl]
    ELSE LET s == app_sorted(pl)
             l == app_format_loop(s, 2, s[1], s[1], <<>>)
             parts == Append(l.result, app_render_run(l.start, l.end))
         IN  [result |-> py_join(", ", parts), page_list |-> s]

-----------------------------------------------------------------------------
(* format_page_list of src/pdf_color_page_analyzer.py (lines 80-106) *)

\* lines 94-97 and 101-104
desk_render_run(start, end) ==
    IF start = end THEN py_str(start)
    ELSE py_str(start) \o "-" \o py_str(end)

\* lines 90-98
RECURSIVE desk_format_loop(_, _, _, _, _)
desk_format_loop(pl, i, start, end, result) ==
    IF i > Len(pl)
    THEN [start |-> start, end |-> end, result |-> result]
    ELSE IF pl[i] = end + 1
         THEN desk_format_loop(pl, i + 1, start, pl[i], result)
         ELSE desk_format_loop(pl, i + 1, pl[i], pl[i],
                               Append(result, desk_render_run(start, end)))

\* line 85
desk_sorted(pl) == list_sort(pl)

\* lines 80-106
desk_format_page_list(pl) ==
    IF pl = <<>>
    THEN [result |-> "", page_list |-> pl]
    ELSE LET s == desk_sorted(pl)
             l == desk_format_loop(s, 2, s[1], s[1], <<>>)
             parts == Append(l.result, desk_render_run(l.start, l.end))
         IN  [result |-> py_join(", ", parts), page_list |-> s]

-----------------------------------------------------------------------------
(* Calls of format_page_list on a list of distinct page numbers *)

PageNos == (1..MaxPageNo) \cup {10, 11}

Range(s) == { s[k] : k \in DOMAIN s }

\* the lists of at most n distinct elements of S, in every order
DistinctLists(S, n) ==
    { s \in SeqsUpTo(S, n) : Cardinality(Range(s)) = Len(s) }

InitFormat ==
    /\ arg_list \in DistinctLists(PageNos, MaxListLen)
    /\ page_list = [f \in FE |-> arg_list]
    /\ out = [f \in FE |-> ""]
    /\ fpc = [f \in FE |-> "call"]

FormatIdle ==
    /\ arg_list = <<>>
    /\ page_list = [f \in FE |-> <<>>]
    /\ out = [f \in FE |-> ""]
    /\ fpc = [f \in FE |-> "idle"]

\* app.py lines 127, 134: format_page_list(page_list)
Web_Format ==
    /\ fpc["web"] = "call"
    /\ LET r == app_format_page_list(page_list["web"])
       IN  /\ out' = [out EXCEPT !["web"] = r.result]
           /\ page_list' = [page_list EXCEPT !["web"] = r.page_list]
    /\ fpc' = [fpc EXCEPT !["web"] = "done"]
    /\ UNCHANGED <<arg_list, scanVars, classVars>>

\* pdf_color_page_analyzer.py lines 68, 76: format_page_list(page_list)
Desk_Format ==
    /\ fpc["desk"] = "call"
    /\ LET r == desk_format_page_list(page_list["desk"])
       IN  /\ out' = [out EXCEPT !["desk"] = r.result]
           /\ page_list' = [page_list EXCEPT !["desk"] = r.page_list]
    /\ fpc' = [fpc EXCEPT !["desk"] = "done"]
    /\ UNCHANGED <<arg_list, scanVars, classVars>>

-----------------------------------------------------------------------------
(* Calls of the classifier on rasters of every length up to MaxRasterLen *)

SamplePixels == {Gray, AtLimit, OverRG, OverB, Vivid}

Fills == {Gray, Vivid}

Colorspaces == {NoColorspace, Colorspace(1), Colorspace(3), Colorspace(4)}

Pixmaps ==
    { Pixmap(cs, Raster(len, p0, p1, p2, fill)) :
        cs \in Colorspaces, len \in 0..MaxRasterLen,
        p0 \in SamplePixels, p1 \in SamplePixels, p2 \in SamplePixels,
        fill \in Fills }

InitClassify ==
    /\ cpix \in Pixmaps
    /\ verdict = [f \in FE |-> FALSE]
    /\ creads = [f \in FE |-> {}]
    /\ cpc = [f \in FE |-> "call"]

ClassifyIdle ==
    /\ cpix = RenderFails
    /\ verdict = [f \in FE |-> FALSE]
    /\ creads = [f \in FE |-> {}]
    /\ cpc = [f \in FE |-> "idle"]

\* app.py lines 30-47 on cpix
Web_ClassifyPixmap ==
    /\ cpc["web"] = "call"
    /\ LET c == app_classify(cpix)
       IN  /\ verdict' = [verdict EXCEPT !["web"] = c.is_color]
           /\ creads' = [creads EXCEPT !["web"] = c.reads]
    /\ cpc' = [cpc EXCEPT !["web"] = "done"]
    /\ UNCHANGED <<cpix, scanVars, formatVars>>

\* pdf_color_page_analyzer.py lines 27-44 on cpix
Desk_ClassifyPixmap ==
    /\ cpc["desk"] = "call"
    /\ LET c == desk_classify(cpix)
       IN  /\ verdict' = [verdict EXCEPT !["desk"] = c.is_color]
           /\ creads' = [creads EXCEPT !["desk"] = c.reads]
    /\ cpc' = [cpc EXCEPT !["desk"] = "done"]
    /\ UNCHANGED <<cpix, scanVars, formatVars>>

-----------------------------------------------------------------------------
(* Specifications *)

NextScan ==
    \/ Web_CreateTemp
    \/ Web_OpenFails
    \/ Web_Open
    \/ Web_Progress
    \/ Web_RenderFails
    \/ Web_Render
    \/ Web_Classify
    \/ Web_Return
    \/ Web_Except
    \/ Desk_OpenFails
    \/ Desk_Open
    \/ Desk_RenderFails
    \/ Desk_Render
    \/ Desk_Classify
    \/ Desk_Return
    \/ Desk_Except

NextFormat ==
    \/ Web_Format
    \/ Desk_Format

NextClassify ==
    \/ Web_ClassifyPixmap
    \/ Desk_ClassifyPixmap

\* one scan of one document by each front end
Init == InitScan /\ FormatIdle /\ ClassifyIdle

Next == NextScan

Spec == Init /\ [][Next]_vars

\* one call of each format_page_list on one list
InitFormatCalls == ScanIdle /\ InitFormat /\ ClassifyIdle

SpecFormat == InitFormatCalls /\ [][NextFormat]_vars

\* one call of each classifier on one pixmap
InitClassifyCalls == ScanIdle /\ FormatIdle /\ InitClassify

SpecClassify == InitClassifyCalls /\ [][NextClassify]_vars

\* the two front ends side by side on any of the inputs above
InitBoth ==
    \/ InitScan /\ FormatIdle /\ ClassifyIdle
    \/ ScanIdle /\ InitFormat /\ ClassifyIdle
    \/ ScanIdle /\ FormatIdle /\ InitClassify

NextBoth == NextScan \/ NextFormat \/ NextClassify

SpecBoth == InitBoth /\ [][NextBoth]_vars

-----------------------------------------------------------------------------
(* Properties *)

SetMin(S) == CHOOSE m \in S : \A x \in S : m <= x

IsAscending(l) == \A i, j \in DOMAIN l : i < j => l[i] < l[j]

\* l lists every element of S exactly once, and nothing else
ListsExactly(l, S) == Range(l) = S /\ Len(l) = Cardinality(S)

\* the scan of the document fails: fitz.open raises, or some page does not render
ScanFails ==
    document.open_fails \/ \E k \in DOMAIN document.pages : ~document.pages[k].ok

\* the number of pages in front of the first one that does not render
PagesBeforeFailure ==
    IF document.open_fails THEN 0
    ELSE SetMin({ k \in DOMAIN document.pages : ~document.pages[k].ok }) - 1

\* the number of pages front end f has classified and appended
Classified(f) == Len(color_pages[f]) + Len(bw_pages[f])

\* C1: at every point of the loop, after k pages, color_pages and bw_pages are
\* disjoint and together list exactly 1..k; a scan that returns without an
\* exception on a document of N pages returns lists that are disjoint, together
\* list exactly 1..N, and (app.py) a total_pages equal to N and to the sum of
\* the two lengths.
C1_Partition ==
    \A f \in FE :
        /\ pc[f] \in {"progress", "render", "classify", "close"} =>
              LET k == IF pc[f] = "close" THEN Len(document.pages) ELSE page_num[f]
              IN  /\ Range(color_pages[f]) \cap Range(bw_pages[f]) = {}
                  /\ ListsExactly(color_pages[f] \o bw_pages[f], 1..k)
        /\ (pc[f] = "done" /\ errors[f] = 0) =>
              LET N == Len(document.pages)
              IN  /\ ret[f].returned
                  /\ Range(ret[f].color_pages) \cap Range(ret[f].bw_pages) = {}
                  /\ ListsExactly(ret[f].color_pages \o ret[f].bw_pages, 1..N)
                  /\ Len(ret[f].color_pages) + Len(ret[f].bw_pages) = N
                  /\ ret[f].has_total => ret[f].total_pages = N

C1_Witness ==
    /\ \A f \in FE : pc[f] = "done" /\ errors[f] = 0
    /\ Len(document.pages) = MaxPages
    /\ \A f \in FE : ret[f].color_pages # <<>> /\ ret[f].bw_pages # <<>>

\* C2: when opening the document or rendering a page fails, analyze_pdf stops
\* at that page, reports once on the error channel and returns the empty
\* result (both lists empty, total_pages 0 in app.py): no page classified
\* before the failure is in what it returns, and it returns normally.
C2_FailureGivesEmptyResult ==
    \A f \in FE :
        /\ pc[f] = "close" => ~ScanFails
        /\ pc[f] = "done" => ret[f].returned
        /\ (pc[f] = "done" /\ ScanFails) =>
              /\ errors[f] = 1
              /\ ret[f].color_pages = <<>>
              /\ ret[f].bw_pages = <<>>
              /\ ret[f].has_total => ret[f].total_pages = 0
              /\ Classified(f) = PagesBeforeFailure

C2_Witness ==
    /\ \A f \in FE : pc[f] = "done" /\ errors[f] = 1 /\ ret[f].color_pages = <<>>
    /\ ~document.open_fails
    /\ PagesBeforeFailure = 2
    /\ \A f \in FE : color_pages[f] # <<>>

\* C3: progress is reported once per page with a strictly increasing completed
\* count, and the report for page k comes only after page k has been rendered,
\* classified and appended.
C3_ProgressAfterClassification ==
    \A j \in DOMAIN progress :
        /\ progress[j].completed = j
        /\ progress[j].completed <= Classified("web")

\* the maximal runs of consecutive integers of S, as pairs <<first, last>>
Runs(S) ==
    { r \in S \X S :
        /\ r[1] <= r[2]
        /\ \A k \in r[1]..r[2] : k \in S
        /\ (r[1] - 1) \notin S
        /\ (r[2] + 1) \notin S }

RunText(r) ==
    IF r[1] = r[2] THEN ToString(r[1])
    ELSE ToString(r[1]) \o "-" \o ToString(r[2])

\* the texts of the runs R, ascending, separated by ", "
RECURSIVE RunsText(_)
RunsText(R) ==
    IF R = {} THEN ""
    ELSE LET first == CHOOSE r \in R : \A q \in R : r[1] <= q[1]
             rest == R \ {first}
         IN  IF rest = {} THEN RunText(first)
             ELSE RunText(first) \o ", " \o RunsText(rest)

\* C4: for a list of distinct positive integers format_page_list returns ""
\* for the empty list and otherwise the maximal runs of consecutive integers
\* of its elements, ascending, joined by ", ": a run of one number as the
\* number, a longer run as "first-last".
C4_FormatsMaximalRuns ==
    \A f \in FE : fpc[f] = "done" => out[f] = RunsText(Runs(Range(arg_list)))

C4_Witness ==
    /\ \A f \in FE : fpc[f] = "done"
    /\ arg_list = <<11, 2, 1, 5, 10>>
    /\ out["web"] = "1-2, 5, 10-11"

\* the elements of S in ascending order
RECURSIVE Ascending(_)
Ascending(S) ==
    IF S = {} THEN <<>>
    ELSE <<SetMin(S)>> \o Ascending(S \ {SetMin(S)})

\* C5: format_page_list returns for a list, in whatever order its elements
\* come, the string it returns for the same elements in ascending order.
C5_OrderIndependent ==
    /\ fpc["web"] = "done" =>
          out["web"] = app_format_page_list(Ascending(Range(arg_list))).result
    /\ fpc["desk"] = "done" =>
          out["desk"] = desk_format_page_list(Ascending(Range(arg_list))).result

C5_Witness ==
    /\ \A f \in FE : fpc[f] = "done"
    /\ arg_list = <<5, 1, 3, 2, 4>>
    /\ \A f \in FE : out[f] = "1-5"

\* C6: format_page_list leaves the list it is given unchanged: the same
\* elements in the same order after the call as before.
C6_ArgumentUnchanged ==
    \A f \in FE : fpc[f] = "done" => page_list[f] = arg_list

\* the offsets of img that the sampling visits and at which two of the three
\* bytes differ by more than 5
Hits(img) ==
    { i \in 0..(Len(img) - 1) :
        /\ i % 30 = 0
        /\ i + 2 < Len(img)
        /\ \E x, y \in {img[i + 1], img[i + 2], img[i + 3]} : x - y > 5 }

\* C7: a raster with at least 3 channels is Color exactly when some offset i,
\* a multiple of 30 with i + 2 inside the raster, holds three bytes two of
\* which differ by more than 5; no byte after the first such pixel is read,
\* and no offset outside the raster is read.
C7_ColorIffSampledPixelExceeds ==
    \A f \in FE :
        (cpc[f] = "done" /\ cpix.colorspace.present /\ cpix.colorspace.n >= 3) =>
            LET img == cpix.samples
            IN  /\ verdict[f] <=> Hits(img) # {}
                /\ creads[f] \subseteq 0..(Len(img) - 1)
                /\ Hits(img) # {} => creads[f] \subseteq 0..(SetMin(Hits(img)) + 2)

C7_Witness ==
    /\ \A f \in FE : cpc[f] = "done" /\ verdict[f]
    /\ cpix = Pixmap(Colorspace(3), Raster(MaxRasterLen, AtLimit, OverB, Vivid, Vivid))
    /\ creads["web"] = {0, 1, 2, 30, 31, 32}

\* C8: a classified page whose pixmap has no colorspace, or fewer than 3
\* channels, is in bw_pages and not in color_pages, and none of its samples
\* was read.
C8_FewChannelsIsMonochrome ==
    \A f \in FE : \A k \in DOMAIN reads[f] :
        LET p == document.pages[k]
        IN  (~p.colorspace.present \/ p.colorspace.n < 3) =>
                /\ k \in Range(bw_pages[f])
                /\ k \notin Range(color_pages[f])
                /\ reads[f][k] = {}

C8_Witness ==
    /\ \A f \in FE : pc[f] = "done" /\ ret[f].bw_pages = <<1, 2>>
    /\ Len(document.pages) = 2
    /\ ~document.pages[1].colorspace.present
    /\ document.pages[2].colorspace.n = 1
    /\ document.pages[2].samples[2] = 255

\* C9: when analyze_pdf has returned, the document handle it opened is closed
\* and (app.py) the temporary file it created is removed.
C9_ResourcesReleased ==
    \A f \in FE :
        pc[f] = "done" => /\ ~doc_open[f]
                          /\ f = "web" => ~temp_file

\* C10: on the same input the two front ends agree: analyze_pdf returns the
\* same two lists, ascending, and app.py's total_pages is the total that
\* display_results derives; the two format_page_list return the same string;
\* the two classifiers reach the same verdict reading the same bytes.
C10_FrontEndsAgree ==
    /\ (\A f \in FE : pc[f] = "done") =>
          /\ ret["web"].color_pages = ret["desk"].color_pages
          /\ ret["web"].bw_pages = ret["desk"].bw_pages
          /\ \A f \in FE : IsAscending(ret[f].color_pages) /\ IsAscending(ret[f].bw_pages)
          /\ ret["web"].total_pages =
                desk_display_total(ret["desk"].color_pages, ret["desk"].bw_pages)
    /\ (\A f \in FE : fpc[f] = "done") => out["web"] = out["desk"]
    /\ (\A f \in FE : cpc[f] = "done") =>
          verdict["web"] = verdict["desk"] /\ creads["web"] = creads["desk"]

C10_Witness ==
    /\ \A f \in FE : pc[f] = "done" /\ errors[f] = 0
    /\ Len(document.pages) = 3
    /\ ret["desk"].color_pages = <<1, 3>>
    /\ ret["web"].bw_pages = <<2>>

=============================================================================
